---------------------------- MODULE Spec2Model ----------------------------
(***************************************************************************)
(* Notes backend: the in-memory repository (Store), the NoteService, the   *)
(* pydantic schemas that validate and normalise note fields, and the       *)
(* request handlers of routers_notes.py (the router main.py registers),    *)
(* run by request threads.  Each action is one step of a handler; a step   *)
(* that reads or writes shared state (the singleton, a repository's dict   *)
(* and lock, the clock, the id generator) is a step of its own.            *)
(*                                                                         *)
(* held and deleted are history variables: they record what a thread found *)
(* on taking the lock and which ids were deleted, and no step reads them.  *)
(*                                                                         *)
(* A text value is a sequence of runs [c, n]: the character c repeated n   *)
(* times (n >= 1, adjacent runs carry different characters), so that a     *)
(* 200- or 10000-character value is one run.  None is Python's None.       *)
(***************************************************************************)
EXTENDS Integers, Sequences, FiniteSets, TLC

VARIABLES
    singleton,  \* routers_notes._SERVICE_SINGLETON: None or a service
    items,      \* items[r]: InMemoryNoteRepository._items of repository r
    lock,       \* lock[r]: InMemoryNoteRepository._lock, [owner, count]
    clock,      \* the reading datetime.utcnow() returns now
    issued,     \* number of ids uuid4() has handed out
    requests,   \* number of requests received so far
    pc,         \* pc[t]: where request thread t stands in its handler
    req,        \* req[t]: the request thread t is serving, as received
    payload,    \* payload[t]: the parsed NoteCreate / NoteUpdate model
    svc,        \* svc[t]: the NoteService get_service gave the handler
    note,       \* note[t]: the Note a handler built (note / updated)
    existing,   \* existing[t]: update_note's local `existing`
    ret,        \* ret[t]: what the repository call returned
    response,   \* response[t]: HTTP status and body sent back
    held,       \* history: _items as thread t found it on taking the lock
    deleted     \* history: deleted[r] holds the ids delete_note removed from r

vars == <<singleton, items, lock, clock, issued, requests, pc, req, payload,
          svc, note, existing, ret, response, held, deleted>>

-----------------------------------------------------------------------------
(* Bounds of the model *)

NumThreads == 2
MaxRequests == 3
MaxIds == 2
MaxClock == 1

(* Program constants *)

TitleMinLength == 1
TitleMaxLength == 200
ContentMaxLength == 10000

HTTP_200_OK == 200
HTTP_201_CREATED == 201
HTTP_204_NO_CONTENT == 204
HTTP_404_NOT_FOUND == 404
HTTP_422_UNPROCESSABLE == 422
HTTP_500_INTERNAL == 500

\* Python's None where a str is expected, and where a model object is expected;
\* pydantic's ValidationError for a field, and for a whole model.
None == <<[c |-> "None", n |-> 0]>>
InvalidField == <<[c |-> "ValidationError", n |-> 0]>>
NoNote == [none |-> TRUE]
Invalid == [error |-> "ValidationError"]
NoService == 0

Threads == 1..NumThreads
Ids == 1..MaxIds

-----------------------------------------------------------------------------
(* Text values *)

S(c, n) == <<[c |-> c, n |-> n]>>

Empty == <<>>

RECURSIVE StrLen(_)
StrLen(s) == IF s = <<>> THEN 0 ELSE Head(s).n + StrLen(Tail(s))

IsSpace(c) == c \in {" ", "\t"}

RECURSIVE LStrip(_)
LStrip(s) ==
    IF s = <<>> THEN <<>>
    ELSE IF IsSpace(Head(s).c) THEN LStrip(Tail(s)) ELSE s

RECURSIVE RStrip(_)
RStrip(s) ==
    IF s = <<>> THEN <<>>
    ELSE IF IsSpace(s[Len(s)].c) THEN RStrip(SubSeq(s, 1, Len(s) - 1)) ELSE s

Strip(s) == RStrip(LStrip(s))

\* str.lower() on one character of the model's alphabet.
LowerChar(c) ==
    CASE c = "A" -> "a"
      [] c = "B" -> "b"
      [] c = "C" -> "c"
      [] OTHER -> c

\* Adjacent runs of the same character are one run.
RECURSIVE Runs(_)
Runs(s) ==
    IF Len(s) <= 1 THEN s
    ELSE IF s[1].c = s[2].c
         THEN Runs(<<[c |-> s[1].c, n |-> s[1].n + s[2].n]>> \o Tail(Tail(s)))
         ELSE <<s[1]>> \o Runs(Tail(s))

\* str.lower()
Lower(s) == Runs([i \in 1..Len(s) |-> [c |-> LowerChar(s[i].c), n |-> s[i].n]])

\* Python's `p in s` on two strings: p occurs in s as a substring.
Contains(p, s) ==
    \/ p = <<>>
    \/ /\ Len(p) = 1
       /\ \E i \in 1..Len(s) : s[i].c = p[1].c /\ s[i].n >= p[1].n
    \/ /\ Len(p) >= 2
       /\ \E i \in 1..(Len(s) - Len(p) + 1) :
            /\ s[i].c = p[1].c /\ s[i].n >= p[1].n
            /\ s[i + Len(p) - 1].c = p[Len(p)].c
            /\ s[i + Len(p) - 1].n >= p[Len(p)].n
            /\ \A k \in 2..(Len(p) - 1) : s[i + k - 1] = p[k]

-----------------------------------------------------------------------------
(* schemas.py *)

\* Field(..., min_length=1, max_length=200) on a str: checked on the value as
\* received, before the field validator runs.
TitleLengthOk(v) == StrLen(v) >= TitleMinLength /\ StrLen(v) <= TitleMaxLength

ContentLengthOk(v) == StrLen(v) <= ContentMaxLength

\* Mutation: the check for an empty title is left out.
title_trim_no_empty_check(v) ==
    IF v = None \/ ~TitleLengthOk(v) THEN InvalidField ELSE Strip(v)

\* Mutation: the title is checked but stored as received.
title_checked_not_trimmed(v) ==
    IF v = None \/ ~TitleLengthOk(v) THEN InvalidField
    ELSE IF Strip(v) = <<>> THEN InvalidField ELSE v

\* NoteBase.title: required str, length constraint, then title_trim_and_validate.
title_trim_and_validate(v) ==
    IF v = None \/ ~TitleLengthOk(v) THEN InvalidField
    ELSE LET trimmed == Strip(v)
         IN  IF trimmed = <<>> THEN InvalidField ELSE trimmed

\* Mutation: v.strip() in place of v.rstrip().
content_sanitize_strips_both(v) ==
    IF v = None THEN Empty
    ELSE IF ~ContentLengthOk(v) THEN InvalidField
    ELSE Strip(v)

\* NoteBase.content: default "", length constraint, then content_sanitize.
content_sanitize(v) ==
    IF v = None THEN Empty
    ELSE IF ~ContentLengthOk(v) THEN InvalidField
    ELSE RStrip(v)

\* NoteUpdate.title: Optional, None passes through.
title_optional_trim_and_validate(v) ==
    IF v = None THEN None
    ELSE IF ~TitleLengthOk(v) THEN InvalidField
    ELSE LET trimmed == Strip(v)
         IN  IF trimmed = <<>> THEN InvalidField ELSE trimmed

\* NoteUpdate.content: Optional, None passes through.
content_optional_trim(v) ==
    IF v = None THEN None
    ELSE IF ~ContentLengthOk(v) THEN InvalidField
    ELSE RStrip(v)

\* NoteCreate(title=..., content=...): the parsed model, or Invalid.
NoteCreate(title, content) ==
    LET t == title_trim_and_validate(title)
        c == content_sanitize(content)
    IN  IF t = InvalidField \/ c = InvalidField THEN Invalid
        ELSE [title |-> t, content |-> c]

\* NoteUpdate(title=..., content=...): the parsed model, or Invalid.
NoteUpdate(title, content) ==
    LET t == title_optional_trim_and_validate(title)
        c == content_optional_trim(content)
    IN  IF t = InvalidField \/ c = InvalidField THEN Invalid
        ELSE [title |-> t, content |-> c]

\* Note(id=..., title=..., content=..., created_at=..., updated_at=...):
\* Note extends NoteBase, so its title and content are validated again.
Note(id, title, content, created_at, updated_at) ==
    LET t == title_trim_and_validate(title)
        c == content_sanitize(content)
    IN  IF t = InvalidField \/ c = InvalidField THEN Invalid
        ELSE [id |-> id, title |-> t, content |-> c,
              created_at |-> created_at, updated_at |-> updated_at]

\* Mutation: an id generator that hands out its previous value again.
uuid4_repeats == IF issued = 0 THEN 1 ELSE issued

\* uuid4(): 122 random bits; modelled as a value never handed out before.
uuid4 == issued + 1

\* datetime.utcnow()
utcnow == clock

\* new_note_from_create(payload)
new_note_from_create(p) ==
    LET now == utcnow
    IN  Note(uuid4, p.title, p.content, now, now)

-----------------------------------------------------------------------------
(* repository.py: the dict _items and the RLock _lock *)

EmptyDict == <<>>

DictGet(m, k) == IF k \in DOMAIN m THEN m[k] ELSE NoNote

DictSet(m, k, v) == [x \in DOMAIN m \cup {k} |-> IF x = k THEN v ELSE m[x]]

\* Mutation: the entry is not removed.
DictDel_keeps(m, k) == m

DictDel(m, k) == [x \in DOMAIN m \ {k} |-> m[x]]

DictValues(m) == {m[k] : k \in DOMAIN m}

Unlocked == [owner |-> 0, count |-> 0]

\* Mutation: a lock that never blocks.
CanAcquire_never_blocks(l, t) == TRUE

\* RLock.acquire() returns at once when no thread owns the lock or the caller
\* does; any other caller blocks.
CanAcquire(l, t) == l.owner = 0 \/ l.owner = t

RLockAcquire(l, t) == [owner |-> t, count |-> l.count + 1]

RLockRelease(l) ==
    IF l.count = 1 THEN Unlocked ELSE [owner |-> l.owner, count |-> l.count - 1]

\* The five repository methods, each run alone on the dict m (the body of its
\* `with self._lock:` block): the dict afterwards and the value returned.
repo_list_notes(m) == [items |-> m, ret |-> [notes |-> DictValues(m)]]

repo_get_note(m, note_id) == [items |-> m, ret |-> DictGet(m, note_id)]

repo_create_note(m, n) == [items |-> DictSet(m, n.id, n), ret |-> n]

\* Mutation: `if not content` in place of `if content is None`.
Updated_empty_is_absent(e, title, content, now) ==
    LET updated_title == IF title = None THEN e.title ELSE title
        updated_content ==
            IF content = None \/ content = Empty THEN e.content ELSE content
    IN  Note(e.id, updated_title, updated_content, e.created_at, now)

\* Mutation: the updated note is given a new id.
Updated_new_id(e, title, content, now) ==
    LET updated_title == IF title = None THEN e.title ELSE title
        updated_content == IF content = None THEN e.content ELSE content
    IN  Note(uuid4, updated_title, updated_content, e.created_at, now)

\* update_note, lines 50-58: the Note built from `existing` and the arguments.
\* Mutation: update_note writes the default content where none was supplied.
Updated_absent_is_default(e, title, content, now) ==
    Note(e.id,
         IF title = None THEN e.title ELSE title,
         IF content = None THEN Empty ELSE content,
         e.created_at, now)

\* Mutation: update_note stamps the new record as created now.
Updated_resets_created_at(e, title, content, now) ==
    Note(e.id,
         IF title = None THEN e.title ELSE title,
         IF content = None THEN e.content ELSE content,
         now, now)

\* Mutation: update_note passes the two timestamps in each other's place.
Updated_swaps_timestamps(e, title, content, now) ==
    Note(e.id,
         IF title = None THEN e.title ELSE title,
         IF content = None THEN e.content ELSE content,
         now, e.created_at)

\* Mutation: update_note keeps the stored updated_at.
Updated_keeps_updated_at(e, title, content, now) ==
    Note(e.id,
         IF title = None THEN e.title ELSE title,
         IF content = None THEN e.content ELSE content,
         e.created_at, e.updated_at)

Updated(e, title, content, now) ==
    LET updated_title == IF title = None THEN e.title ELSE title
        updated_content == IF content = None THEN e.content ELSE content
    IN  Note(e.id, updated_title, updated_content, e.created_at, now)

repo_update_note(m, note_id, title, content, now) ==
    LET e == DictGet(m, note_id)
    IN  IF e = NoNote THEN [items |-> m, ret |-> NoNote]
        ELSE LET updated == Updated(e, title, content, now)
             IN  IF updated = Invalid THEN [items |-> m, ret |-> Invalid]
                 ELSE [items |-> DictSet(m, note_id, updated), ret |-> updated]

repo_delete_note(m, note_id) ==
    IF note_id \in DOMAIN m
    THEN [items |-> DictDel(m, note_id), ret |-> [ok |-> TRUE]]
    ELSE [items |-> m, ret |-> [ok |-> FALSE]]

-----------------------------------------------------------------------------
(* State after construction: the module is imported, nothing else has run *)

NoRequest == [op |-> "none", id |-> 0, title |-> None, content |-> None, q |-> None]
NoResponse == [status |-> 0, body |-> NoNote]

Init ==
    /\ singleton = NoService
    /\ items = <<>>
    /\ lock = <<>>
    /\ clock = 0
    /\ issued = 0
    /\ requests = 0
    /\ pc = [t \in Threads |-> "idle"]
    /\ req = [t \in Threads |-> NoRequest]
    /\ payload = [t \in Threads |-> NoNote]
    /\ svc = [t \in Threads |-> NoService]
    /\ note = [t \in Threads |-> NoNote]
    /\ existing = [t \in Threads |-> NoNote]
    /\ ret = [t \in Threads |-> NoNote]
    /\ held = [t \in Threads |-> EmptyDict]
    /\ response = [t \in Threads |-> NoResponse]
    /\ deleted = <<>>

shared == <<singleton, items, lock, clock, issued, deleted>>
locals == <<payload, svc, note, existing, ret, held, response>>

-----------------------------------------------------------------------------
(* A request arrives and is given to request thread t *)

\* Create requests received whose id has not been drawn yet.
CreatesPending ==
    Cardinality({t \in Threads :
        /\ req[t].op = "create"
        /\ pc[t] \in {"get_service", "gs_new", "gs_return", "parse", "new_note"}})

RequestsOver(Titles, Contents, Filters) ==
    {[op |-> "list", id |-> 0, title |-> None, content |-> None, q |-> f] :
            f \in Filters}
    \cup {[op |-> o, id |-> i, title |-> None, content |-> None, q |-> None] :
            o \in {"get", "delete"}, i \in Ids}
    \cup {[op |-> "create", id |-> 0, title |-> ti, content |-> co, q |-> None] :
            ti \in Titles, co \in Contents}
    \cup {[op |-> "update", id |-> i, title |-> ti, content |-> co, q |-> None] :
            i \in Ids, ti \in Titles, co \in Contents}

Request(t, Titles, Contents, Filters) ==
    /\ pc[t] \in {"idle", "done"}
    /\ requests < MaxRequests
    /\ \E r \in RequestsOver(Titles, Contents, Filters) :
        /\ r.op = "create" => issued + CreatesPending < MaxIds
        /\ req' = [req EXCEPT ![t] = r]
    /\ requests' = requests + 1
    /\ pc' = [pc EXCEPT ![t] = "get_service"]
    /\ payload' = [payload EXCEPT ![t] = NoNote]
    /\ svc' = [svc EXCEPT ![t] = NoService]
    /\ note' = [note EXCEPT ![t] = NoNote]
    /\ existing' = [existing EXCEPT ![t] = NoNote]
    /\ ret' = [ret EXCEPT ![t] = NoNote]
    /\ held' = [held EXCEPT ![t] = EmptyDict]
    /\ response' = [response EXCEPT ![t] = NoResponse]
    /\ UNCHANGED shared

-----------------------------------------------------------------------------
(* routers_notes.get_service, resolved by Depends before the body is parsed *)

\* if _SERVICE_SINGLETON is not None: return _SERVICE_SINGLETON
GetServiceCheck(t) ==
    /\ pc[t] = "get_service"
    /\ IF singleton # NoService
       THEN /\ svc' = [svc EXCEPT ![t] = singleton]
            /\ pc' = [pc EXCEPT ![t] = "parse"]
       ELSE /\ pc' = [pc EXCEPT ![t] = "gs_new"]
            /\ UNCHANGED svc
    /\ UNCHANGED <<shared, requests, req, payload, note, existing, ret, held,
                   response>>

\* repo = InMemoryNoteRepository(); _SERVICE_SINGLETON = NoteService(repo)
\* A service is named by the index of the repository it wraps.
GetServiceNew(t) ==
    /\ pc[t] = "gs_new"
    /\ items' = Append(items, EmptyDict)
    /\ lock' = Append(lock, Unlocked)
    /\ deleted' = Append(deleted, {})
    /\ singleton' = Len(items) + 1
    /\ pc' = [pc EXCEPT ![t] = "gs_return"]
    /\ UNCHANGED <<clock, issued, requests, req, locals>>

\* return _SERVICE_SINGLETON
GetServiceReturn(t) ==
    /\ pc[t] = "gs_return"
    /\ svc' = [svc EXCEPT ![t] = singleton]
    /\ pc' = [pc EXCEPT ![t] = "parse"]
    /\ UNCHANGED <<shared, requests, req, payload, note, existing, ret, held,
                   response>>

-----------------------------------------------------------------------------
(* The request body is parsed into the handler's payload model *)

ParseBody(r) ==
    CASE r.op = "create" -> NoteCreate(r.title, r.content)
      [] r.op = "update" -> NoteUpdate(r.title, r.content)
      [] OTHER -> NoNote

Parse(t) ==
    /\ pc[t] = "parse"
    /\ LET p == ParseBody(req[t])
       IN  IF p = Invalid
           THEN /\ response' = [response EXCEPT ![t] =
                        [status |-> HTTP_422_UNPROCESSABLE, body |-> Invalid]]
                /\ pc' = [pc EXCEPT ![t] = "done"]
                /\ UNCHANGED payload
           ELSE /\ payload' = [payload EXCEPT ![t] = p]
                /\ pc' = [pc EXCEPT ![t] =
                        IF req[t].op = "create" THEN "new_note" ELSE "acquire"]
                /\ UNCHANGED response
    /\ UNCHANGED <<shared, requests, req, svc, note, existing, ret, held>>

-----------------------------------------------------------------------------
(* service.py and repository.py *)

\* NoteService.create_note: note = new_note_from_create(payload)
\* A ValidationError raised by Note(...) leaves the service: no handler
\* catches it.
NewNote(t) ==
    /\ pc[t] = "new_note"
    /\ LET n == new_note_from_create(payload[t])
       IN  /\ note' = [note EXCEPT ![t] = n]
           /\ IF n = Invalid
              THEN /\ response' = [response EXCEPT ![t] =
                           [status |-> HTTP_500_INTERNAL, body |-> Invalid]]
                   /\ pc' = [pc EXCEPT ![t] = "done"]
              ELSE /\ pc' = [pc EXCEPT ![t] = "acquire"]
                   /\ UNCHANGED response
    /\ issued' = issued + 1
    /\ UNCHANGED <<singleton, items, lock, clock, deleted, requests, req,
                   payload, svc, existing, ret, held>>

\* with self._lock:
Acquire(t) ==
    /\ pc[t] = "acquire"
    /\ CanAcquire(lock[svc[t]], t)
    /\ lock' = [lock EXCEPT ![svc[t]] = RLockAcquire(@, t)]
    /\ held' = [held EXCEPT ![t] = items[svc[t]]]
    /\ pc' = [pc EXCEPT ![t] = req[t].op]
    /\ UNCHANGED <<singleton, items, clock, issued, deleted, requests, req,
                   payload, svc, note, existing, ret, response>>

\* list_notes: return list(self._items.values())
ListNotes(t) ==
    /\ pc[t] = "list"
    /\ ret' = [ret EXCEPT ![t] = [notes |-> DictValues(items[svc[t]])]]
    /\ pc' = [pc EXCEPT ![t] = "release"]
    /\ UNCHANGED <<shared, requests, req, payload, svc, note, existing, held,
                   response>>

\* get_note: return self._items.get(note_id)
GetNote(t) ==
    /\ pc[t] = "get"
    /\ ret' = [ret EXCEPT ![t] = DictGet(items[svc[t]], req[t].id)]
    /\ pc' = [pc EXCEPT ![t] = "release"]
    /\ UNCHANGED <<shared, requests, req, payload, svc, note, existing, held,
                   response>>

\* create_note: self._items[note.id] = note; return note
CreateNote(t) ==
    /\ pc[t] = "create"
    /\ items' = [items EXCEPT ![svc[t]] = DictSet(@, note[t].id, note[t])]
    /\ ret' = [ret EXCEPT ![t] = note[t]]
    /\ pc' = [pc EXCEPT ![t] = "release"]
    /\ UNCHANGED <<singleton, lock, clock, issued, deleted, requests, req,
                   payload, svc, note, existing, held, response>>

\* update_note: existing = self._items.get(note_id); if not existing: return None
UpdateGet(t) ==
    /\ pc[t] = "update"
    /\ LET e == DictGet(items[svc[t]], req[t].id)
       IN  /\ existing' = [existing EXCEPT ![t] = e]
           /\ IF e = NoNote
              THEN /\ ret' = [ret EXCEPT ![t] = NoNote]
                   /\ pc' = [pc EXCEPT ![t] = "release"]
              ELSE /\ pc' = [pc EXCEPT ![t] = "update_build"]
                   /\ UNCHANGED ret
    /\ UNCHANGED <<shared, requests, req, payload, svc, note, held, response>>

\* update_note: updated = Note(id=existing.id, ..., updated_at=datetime.utcnow())
\* A ValidationError raised here leaves the with block and the service.
UpdateBuild(t) ==
    /\ pc[t] = "update_build"
    /\ LET updated == Updated(existing[t], payload[t].title,
                              payload[t].content, utcnow)
       IN  /\ note' = [note EXCEPT ![t] = updated]
           /\ IF updated = Invalid
              THEN /\ ret' = [ret EXCEPT ![t] = Invalid]
                   /\ pc' = [pc EXCEPT ![t] = "release"]
              ELSE /\ pc' = [pc EXCEPT ![t] = "update_store"]
                   /\ UNCHANGED ret
    /\ UNCHANGED <<shared, requests, req, payload, svc, existing, held,
                   response>>

\* update_note: self._items[note_id] = updated; return updated
UpdateStore(t) ==
    /\ pc[t] = "update_store"
    /\ items' = [items EXCEPT ![svc[t]] = DictSet(@, req[t].id, note[t])]
    /\ ret' = [ret EXCEPT ![t] = note[t]]
    /\ pc' = [pc EXCEPT ![t] = "release"]
    /\ UNCHANGED <<singleton, lock, clock, issued, deleted, requests, req,
                   payload, svc, note, existing, held, response>>

\* delete_note: if note_id in self._items: ... ; return False
DeleteCheck(t) ==
    /\ pc[t] = "delete"
    /\ IF req[t].id \in DOMAIN items[svc[t]]
       THEN /\ pc' = [pc EXCEPT ![t] = "delete_del"]
            /\ UNCHANGED ret
       ELSE /\ ret' = [ret EXCEPT ![t] = [ok |-> FALSE]]
            /\ pc' = [pc EXCEPT ![t] = "release"]
    /\ UNCHANGED <<shared, requests, req, payload, svc, note, existing, held,
                   response>>

\* delete_note: del self._items[note_id]; return True
DeleteDel(t) ==
    /\ pc[t] = "delete_del"
    /\ items' = [items EXCEPT ![svc[t]] = DictDel(@, req[t].id)]
    /\ deleted' = [deleted EXCEPT ![svc[t]] = @ \cup {req[t].id}]
    /\ ret' = [ret EXCEPT ![t] = [ok |-> TRUE]]
    /\ pc' = [pc EXCEPT ![t] = "release"]
    /\ UNCHANGED <<singleton, lock, clock, issued, requests, req, payload, svc,
                   note, existing, held, response>>

NotFound == [status |-> HTTP_404_NOT_FOUND, body |-> [detail |-> "Note not found"]]

\* Mutation: NoteService.delete_note ignores what the repository returned.
ServiceResponse_delete_unchecked(op, r) ==
    CASE op = "list" -> [status |-> HTTP_200_OK, body |-> r]
      [] op = "get" ->
            IF r = NoNote THEN NotFound ELSE [status |-> HTTP_200_OK, body |-> r]
      [] op = "create" -> [status |-> HTTP_201_CREATED, body |-> r]
      [] op = "update" ->
            IF r = Invalid
            THEN [status |-> HTTP_500_INTERNAL, body |-> Invalid]
            ELSE IF r = NoNote THEN NotFound
            ELSE [status |-> HTTP_200_OK, body |-> r]
      [] op = "delete" -> [status |-> HTTP_204_NO_CONTENT, body |-> NoNote]

\* What the NoteService method and the handler make of the repository's return
\* value r for operation op.
ServiceResponse(op, r) ==
    CASE op = "list" -> [status |-> HTTP_200_OK, body |-> r]
      [] op = "get" ->
            IF r = NoNote THEN NotFound ELSE [status |-> HTTP_200_OK, body |-> r]
      [] op = "create" -> [status |-> HTTP_201_CREATED, body |-> r]
      [] op = "update" ->
            IF r = Invalid
            THEN [status |-> HTTP_500_INTERNAL, body |-> Invalid]
            ELSE IF r = NoNote THEN NotFound
            ELSE [status |-> HTTP_200_OK, body |-> r]
      [] op = "delete" ->
            IF r.ok THEN [status |-> HTTP_204_NO_CONTENT, body |-> NoNote]
            ELSE NotFound

\* Mutation: the handler compares the filter with the title as stored.
list_notes_title_not_lowered(q, notes) ==
    IF q # None /\ q # Empty
    THEN LET q_norm == Lower(Strip(q))
         IN {n \in notes : Contains(q_norm, n.title)}
    ELSE notes

\* routers_notes.list_notes, after service.list_notes() returned notes:
\* if q: q_norm = q.strip().lower(); keep the notes with q_norm in title.lower()
list_notes(q, notes) ==
    IF q # None /\ q # Empty
    THEN LET q_norm == Lower(Strip(q))
         IN {n \in notes : Contains(q_norm, Lower(n.title))}
    ELSE notes

\* routers/notes.list_notes: the same, but filters only if q_norm is not empty.
routers_list_notes(q, notes) ==
    IF q # None /\ q # Empty
    THEN LET q_norm == Lower(Strip(q))
         IN IF q_norm # Empty
            THEN {n \in notes : Contains(q_norm, Lower(n.title))}
            ELSE notes
    ELSE notes

\* What the handler sends back for request r when the service call gave sr.
HandlerResponse(r, sr) ==
    IF r.op = "list" /\ sr.status = HTTP_200_OK
    THEN [sr EXCEPT !.body = [notes |-> list_notes(r.q, sr.body.notes)]]
    ELSE sr

\* Mutation: acquire() and release() without try/finally: an exception raised
\* inside the critical section skips the release.
Release_skipped_on_error(t) ==
    /\ pc[t] = "release"
    /\ lock' = [lock EXCEPT ![svc[t]] =
                    IF ret[t] = Invalid THEN @ ELSE RLockRelease(@)]
    /\ response' = [response EXCEPT ![t] =
                        HandlerResponse(req[t], ServiceResponse(req[t].op, ret[t]))]
    /\ pc' = [pc EXCEPT ![t] = "done"]
    /\ UNCHANGED <<singleton, items, clock, issued, deleted, requests, req,
                   payload, svc, note, existing, ret, held>>

\* The with block is left (by return or by an exception): the lock is released,
\* and the service and the handler turn the result into the response.
Release(t) ==
    /\ pc[t] = "release"
    /\ lock' = [lock EXCEPT ![svc[t]] = RLockRelease(@)]
    /\ response' = [response EXCEPT ![t] =
                        HandlerResponse(req[t], ServiceResponse(req[t].op, ret[t]))]
    /\ pc' = [pc EXCEPT ![t] = "done"]
    /\ UNCHANGED <<singleton, items, clock, issued, deleted, requests, req,
                   payload, svc, note, existing, ret, held>>

\* Time passes between two readings of the clock.
Tick ==
    /\ clock < MaxClock
    /\ clock' = clock + 1
    /\ UNCHANGED <<singleton, items, lock, issued, deleted, requests, pc, req,
                   locals>>

Handler(t) ==
    \/ GetServiceCheck(t)
    \/ GetServiceNew(t)
    \/ GetServiceReturn(t)
    \/ Parse(t)
    \/ NewNote(t)
    \/ Acquire(t)
    \/ ListNotes(t)
    \/ GetNote(t)
    \/ CreateNote(t)
    \/ UpdateGet(t)
    \/ UpdateBuild(t)
    \/ UpdateStore(t)
    \/ DeleteCheck(t)
    \/ DeleteDel(t)
    \/ Release(t)

-----------------------------------------------------------------------------
(* Workloads *)

\* Request bodies of the concurrent workload: a title that is absent, one that
\* needs trimming and one that does not; a content that is absent and one
\* that needs trimming.
Titles == {None, S(" ", 1) \o S("a", 1) \o S("\t", 1), S("B", 1)}
Contents == {None, S("c", 1) \o S(" ", 1)}
Filters == {None}

\* Request threads serve requests concurrently.
Next ==
    \/ \E t \in Threads : Request(t, Titles, Contents, Filters)
    \/ \E t \in Threads : Handler(t)
    \/ Tick

Spec == Init /\ [][Next]_vars

\* Request bodies of the one-client workload: titles and contents around the
\* limits of every field constraint.
SeqTitles ==
    { None, Empty, S("\t", 1) \o S(" ", 2),
      S(" ", 1) \o S("a", 1) \o S("\t", 1),
      S("A", TitleMaxLength),
      S("A", TitleMaxLength) \o S(" ", 1) }
SeqContents ==
    { None, Empty,
      S(" ", 1) \o S("c", 1) \o S("\t", 1) \o S(" ", 2),
      S("c", ContentMaxLength),
      S("c", ContentMaxLength + 1) }
\* Title filters: absent, empty, blank, one that needs trimming and lowering,
\* and one that no title contains.
SeqFilters ==
    { None, Empty, S(" ", 1) \o S("\t", 1),
      S(" ", 1) \o S("a", 1) \o S("A", 1) \o S("\t", 1),
      S("b", 1) }

-----------------------------------------------------------------------------
(* A caller that uses the repository directly *)

\* The caller calls update_note(note_id, title, content) on the repository of
\* the service in use, with arguments no schema has validated.
StoreUpdateCall(t, TitleArgs, ContentArgs) ==
    /\ pc[t] \in {"idle", "done"}
    /\ requests < MaxRequests
    /\ singleton # NoService
    /\ \E i \in Ids, ti \in TitleArgs, co \in ContentArgs :
        /\ req' = [req EXCEPT ![t] =
                      [op |-> "update", id |-> i, title |-> ti, content |-> co,
                       q |-> None]]
        /\ payload' = [payload EXCEPT ![t] = [title |-> ti, content |-> co]]
    /\ requests' = requests + 1
    /\ svc' = [svc EXCEPT ![t] = singleton]
    /\ pc' = [pc EXCEPT ![t] = "acquire"]
    /\ note' = [note EXCEPT ![t] = NoNote]
    /\ existing' = [existing EXCEPT ![t] = NoNote]
    /\ ret' = [ret EXCEPT ![t] = NoNote]
    /\ held' = [held EXCEPT ![t] = EmptyDict]
    /\ response' = [response EXCEPT ![t] = NoResponse]
    /\ UNCHANGED shared

\* The Note objects the last repository call of thread t returned.
ReturnedNotes(t) ==
    IF req[t].op = "list" THEN ret[t].notes
    ELSE IF req[t].op \in {"get", "create", "update"}
            /\ ret[t] # NoNote /\ ret[t] # Invalid
         THEN {ret[t]}
         ELSE {}

\* note.title = x on a Note object: the model has no validate_assignment.
Assign(n, x) == [n EXCEPT !.title = x]

\* The caller assigns to the title of a Note the repository returned.
\* get_note, create_note and update_note return the object the dict holds,
\* and list_notes a new list of those objects, so the assignment is seen
\* through the dict as well.  (The caller is alone: nothing has replaced the
\* dict's entry since the call returned.)
CallerMutates(t, NewTitles) ==
    /\ pc[t] = "done"
    /\ \E n \in ReturnedNotes(t), x \in NewTitles :
        /\ n.title # x
        /\ DictGet(items[svc[t]], n.id) = n
        /\ items' = [items EXCEPT ![svc[t]] = DictSet(@, n.id, Assign(n, x))]
        /\ ret' = [ret EXCEPT ![t] =
                      IF req[t].op = "list"
                      THEN [notes |-> (ret[t].notes \ {n}) \cup {Assign(n, x)}]
                      ELSE Assign(n, x)]
        /\ response' = [response EXCEPT ![t].body =
                      IF req[t].op = "list"
                      THEN [notes |-> {IF m = n THEN Assign(n, x) ELSE m :
                                          m \in response[t].body.notes}]
                      ELSE Assign(n, x)]
    /\ UNCHANGED <<singleton, lock, clock, issued, deleted, requests, pc, req,
                   payload, svc, note, existing, held>>

\* Arguments of the direct calls, and the title the caller assigns.
StoreTitles == {None, Empty, S("B", 1)}
StoreContents == {None}
AssignedTitles == {Empty}

\* One caller sends requests and also uses the repository directly.
NextStore ==
    \/ Request(1, Titles, Contents, Filters)
    \/ Handler(1)
    \/ Tick
    \/ StoreUpdateCall(1, StoreTitles, StoreContents)
    \/ CallerMutates(1, AssignedTitles)

SpecStore == Init /\ [][NextStore]_vars

-----------------------------------------------------------------------------
(* Request threads and direct callers under a fair scheduler *)

FairTitles == {S("B", 1)}
FairContents == {None}
\* A title update_note rejects inside its critical section.
FairTitleArgs == {Empty}

NextFair ==
    \/ \E t \in Threads : Request(t, FairTitles, FairContents, Filters)
    \/ \E t \in Threads : Handler(t)
    \/ \E t \in Threads : StoreUpdateCall(t, FairTitleArgs, FairContents)
    \/ Tick

\* A thread that can take a step of its handler or method eventually takes
\* one; requests and calls arrive as the callers please.
SpecFair ==
    /\ Init
    /\ [][NextFair]_vars
    /\ \A t \in Threads : WF_vars(Handler(t))

\* One client sends one request at a time and waits for the response.
NextSeq ==
    \/ Request(1, SeqTitles, SeqContents, SeqFilters)
    \/ Handler(1)
    \/ Tick

SpecSeq == Init /\ [][NextSeq]_vars

-----------------------------------------------------------------------------
(* Properties of the Store under concurrent callers *)

InCritical(t) ==
    pc[t] \in {"list", "get", "create", "update", "update_build",
               "update_store", "delete", "delete_del", "release"}

\* The repository method of thread t's request, run alone on the dict the
\* thread found when it took the lock (the clock reading of an update is the
\* one the thread took).
Serial(t) ==
    LET m == held[t]
        r == req[t]
    IN  CASE r.op = "list" -> repo_list_notes(m)
          [] r.op = "get" -> repo_get_note(m, r.id)
          [] r.op = "create" -> repo_create_note(m, note[t])
          [] r.op = "update" ->
                repo_update_note(m, r.id, payload[t].title, payload[t].content,
                                 IF note[t] \in {NoNote, Invalid} THEN 0
                                 ELSE note[t].updated_at)
          [] r.op = "delete" -> repo_delete_note(m, r.id)

\* C1: on one Store at most one operation is inside its critical section; until
\* that operation writes, the dict is the one it found on taking the lock (no
\* other operation's effect shows up inside it), and when it leaves, the dict
\* and the value it returns are those of the same method run alone on the dict
\* it found: the operations take effect one at a time, in lock order.
C1_Serialized ==
    /\ \A t1, t2 \in Threads :
        (t1 # t2 /\ InCritical(t1) /\ InCritical(t2)) => svc[t1] # svc[t2]
    /\ \A t \in Threads :
        /\ (InCritical(t) /\ pc[t] # "release") => items[svc[t]] = held[t]
        /\ pc[t] = "release" =>
            /\ items[svc[t]] = Serial(t).items
            /\ ret[t] = Serial(t).ret
    /\ \A r \in DOMAIN lock :
        lock[r].owner = 0 <=> ~ \E t \in Threads : InCritical(t) /\ svc[t] = r

\* An update has written under the lock while another request for the same
\* note waits for the same lock.
C1_Witness ==
    \E t1, t2 \in Threads :
        /\ t1 # t2 /\ svc[t1] = svc[t2]
        /\ pc[t1] = "release" /\ req[t1].op = "update" /\ ret[t1] # NoNote
        /\ pc[t2] = "acquire" /\ req[t2].op \in {"update", "delete"}
        /\ req[t2].id = req[t1].id

\* The title and content a create request's note must carry.
NormalTitle(r) == Strip(r.title)
NormalContent(r) == IF r.content = None THEN Empty ELSE RStrip(r.content)

AllCreated ==
    /\ requests = NumThreads
    /\ \A t \in Threads :
        /\ pc[t] = "done" /\ req[t].op = "create"
        /\ response[t].status = HTTP_201_CREATED
        /\ svc[t] = svc[1]

\* C2: when every thread has served exactly one create request, all through the
\* same service, the store holds exactly NumThreads notes under pairwise
\* distinct ids, each thread's note is stored with its own request's
\* normalised title and content, and list_notes returns exactly these notes.
C2_ConcurrentCreates ==
    AllCreated =>
        LET m == items[svc[1]]
            listed == repo_list_notes(m).ret.notes
        IN  /\ Cardinality(DOMAIN m) = NumThreads
            /\ \A t1, t2 \in Threads :
                t1 # t2 => response[t1].body.id # response[t2].body.id
            /\ \A t \in Threads :
                LET i == response[t].body.id
                IN  /\ i \in DOMAIN m
                    /\ m[i].id = i
                    /\ m[i].title = NormalTitle(req[t])
                    /\ m[i].content = NormalContent(req[t])
                    /\ m[i] \in listed
            /\ Cardinality(listed) = NumThreads

\* All creates are through, and they overlapped: thread 1 drew its id after
\* another thread had drawn one, yet found the store still empty.
C2_Witness ==
    /\ AllCreated
    /\ response[1].body.id > 1
    /\ held[1] = EmptyDict

\* C3: every handler is given the same service, whatever the interleaving of
\* the first calls of get_service, so all requests work on one repository.
C3_OneStore ==
    \A t1, t2 \in Threads :
        (svc[t1] # NoService /\ svc[t2] # NoService) => svc[t1] = svc[t2]

-----------------------------------------------------------------------------
(* Properties of the Service as one client sees it *)

Done(t, op) == pc[t] = "done" /\ req[t].op = op

\* C4: a create that succeeded left, under the id it returned, a note that get
\* finds: it carries that id, the request's title trimmed on both sides, the
\* request's content with trailing whitespace removed (empty when none was
\* sent), and created_at equal to updated_at; and a get of a live id returns
\* the note stored under that id.
C4_CreateThenGet ==
    \A t \in Threads :
        /\ (Done(t, "create") /\ response[t].status = HTTP_201_CREATED) =>
            LET n == response[t].body
                g == ServiceResponse("get",
                                     repo_get_note(items[svc[t]], n.id).ret)
            IN  /\ g.status = HTTP_200_OK
                /\ g.body.id = n.id
                /\ g.body.title = NormalTitle(req[t])
                /\ g.body.content = NormalContent(req[t])
                /\ g.body.created_at = g.body.updated_at
        /\ (Done(t, "get") /\ req[t].id \in DOMAIN held[t]) =>
            /\ response[t].status = HTTP_200_OK
            /\ response[t].body = held[t][req[t].id]
            /\ response[t].body.id = req[t].id

\* A get has returned a note whose title and content both had to be trimmed,
\* read at a later clock reading than the one it was created at.
C4_Witness ==
    \E t \in Threads :
        /\ Done(t, "get") /\ response[t].status = HTTP_200_OK
        /\ response[t].body.title = S("a", 1)
        /\ response[t].body.content = S(" ", 1) \o S("c", 1)
        /\ response[t].body.created_at < clock

\* C5: a successful update leaves the note with, for title and for content,
\* the normalised value sent if one was sent (the empty string included) and
\* the stored value otherwise; id and created_at stay; an update of a live
\* note succeeds whatever fields it sends; every other note stays as it was.
C5_UpdateReplacesSupplied ==
    \A t \in Threads :
        (Done(t, "update") /\ response[t].status # HTTP_422_UNPROCESSABLE
            /\ req[t].id \in DOMAIN held[t]) =>
            LET i == req[t].id
                old == held[t][i]
                m == items[svc[t]]
            IN  /\ response[t].status = HTTP_200_OK
                /\ DOMAIN m = DOMAIN held[t]
                /\ response[t].body = m[i]
                /\ m[i].title =
                      IF req[t].title = None THEN old.title
                      ELSE Strip(req[t].title)
                /\ m[i].content =
                      IF req[t].content = None THEN old.content
                      ELSE RStrip(req[t].content)
                /\ m[i].id = old.id
                /\ m[i].created_at = old.created_at
                /\ \A k \in DOMAIN m \ {i} : m[k] = held[t][k]

\* An update that sent no title and the empty string as content has emptied
\* the content of one of two stored notes.
C5_Witness ==
    \E t \in Threads :
        /\ Done(t, "update") /\ response[t].status = HTTP_200_OK
        /\ req[t].title = None /\ req[t].content = Empty
        /\ held[t][req[t].id].content # Empty
        /\ Cardinality(DOMAIN held[t]) = 2

\* C6: get, update and delete of an id that is not live end with 404 Not Found
\* and leave the store as they found it.
C6_MissingIsNotFound ==
    \A t \in Threads :
        (/\ pc[t] = "done" /\ req[t].op \in {"get", "update", "delete"}
         /\ response[t].status # HTTP_422_UNPROCESSABLE
         /\ req[t].id \notin DOMAIN held[t]) =>
            /\ response[t] = NotFound
            /\ items[svc[t]] = held[t]

\* A delete of an id that is not live has failed on a store that holds a note.
C6_Witness ==
    \E t \in Threads :
        /\ Done(t, "delete") /\ response[t] = NotFound
        /\ held[t] # EmptyDict

\* C7: an id that delete_note removed is never live again, and every get,
\* update and delete of it that follows ends with 404 Not Found.
C7_DeleteIsPermanent ==
    /\ \A r \in DOMAIN items : \A i \in deleted[r] : i \notin DOMAIN items[r]
    /\ \A t \in Threads :
        (/\ pc[t] = "done" /\ req[t].op \in {"get", "update", "delete"}
         /\ response[t].status # HTTP_422_UNPROCESSABLE
         /\ req[t].id \in deleted[svc[t]]
         /\ ~ (req[t].op = "delete" /\ req[t].id \in DOMAIN held[t])) =>
            response[t] = NotFound

\* A second delete of the same id has failed.
C7_Witness ==
    \E t \in Threads :
        /\ Done(t, "delete") /\ response[t] = NotFound
        /\ req[t].id \in deleted[svc[t]]

BlankTitle(r) == r.title # None /\ Strip(r.title) = Empty

\* Every note of every repository.
Stored(it) ==
    UNION {{<<r, k, it[r][k]>> : k \in DOMAIN it[r]} : r \in DOMAIN it}

\* C8: while a create request whose title is empty or all whitespace is being
\* served, no step stores a note or draws an id, and the request ends with
\* 422 (ValidationError), never reaching the service.
C8_BlankTitleRejected ==
    [][\A t \in Threads :
          (/\ req[t].op = "create" /\ BlankTitle(req[t])
           /\ pc[t] \notin {"idle", "done"}) =>
              /\ Stored(items') = Stored(items)
              /\ issued' = issued
              /\ pc'[t] \in {"get_service", "gs_new", "gs_return", "parse",
                            "done"}
              /\ pc'[t] = "done" =>
                    response'[t].status = HTTP_422_UNPROCESSABLE]_vars

\* A create with an all-whitespace title has failed on a store that holds a
\* note.
C8_Witness ==
    \E t \in Threads :
        /\ Done(t, "create") /\ req[t].title = S("\t", 1) \o S(" ", 2)
        /\ response[t].status = HTTP_422_UNPROCESSABLE
        /\ items[svc[t]] # EmptyDict

NoSpaceAtEnds(s) ==
    s = <<>> \/ (~IsSpace(s[1].c) /\ ~IsSpace(s[Len(s)].c))

NoTrailingSpace(s) == s = <<>> \/ ~IsSpace(s[Len(s)].c)

\* C9: every stored note has a title of 1 to 200 characters that neither
\* starts nor ends with whitespace, and a content of at most 10000 characters
\* that does not end with whitespace.
C9_StoredFieldsNormal ==
    \A r \in DOMAIN items : \A k \in DOMAIN items[r] :
        LET n == items[r][k]
        IN  /\ StrLen(n.title) >= 1
            /\ StrLen(n.title) <= 200
            /\ NoSpaceAtEnds(n.title)
            /\ StrLen(n.content) <= 10000
            /\ NoTrailingSpace(n.content)

\* An update has stored a title and a content at their length limits.
C9_Witness ==
    \E t \in Threads :
        /\ Done(t, "update") /\ response[t].status = HTTP_200_OK
        /\ StrLen(items[svc[t]][req[t].id].title) = 200
        /\ StrLen(items[svc[t]][req[t].id].content) = 10000
        /\ StrLen(held[t][req[t].id].title) < 200

\* C10: every note is stored under its own id, so no two live notes share an
\* id; list_notes never returns two notes with one id, and get_note returns a
\* note with the id asked for.
C10_IdsAreKeys ==
    /\ \A r \in DOMAIN items : \A k \in DOMAIN items[r] :
        /\ items[r][k].id = k
        /\ \A k2 \in DOMAIN items[r] \ {k} : items[r][k2].id # items[r][k].id
    /\ \A t \in Threads :
        /\ Done(t, "list") =>
            \A n1, n2 \in response[t].body.notes : n1.id = n2.id => n1 = n2
        /\ (Done(t, "get") /\ response[t].status = HTTP_200_OK) =>
            response[t].body.id = req[t].id

\* A list has returned two notes, one of them updated since it was created.
C10_Witness ==
    \E t \in Threads :
        /\ Done(t, "list")
        /\ Cardinality(response[t].body.notes) = 2
        /\ \E n \in response[t].body.notes : n.title = S("B", 1)

-----------------------------------------------------------------------------
(* C14: the title filter of the list operation *)

\* The notes the filter q selects from all: all of them when the trimmed
\* filter is absent or empty, else those whose title contains it, both in
\* lower case.
Selected(q, all) ==
    LET f == IF q = None THEN Empty ELSE Lower(Strip(q))
    IN  IF f = Empty THEN all
        ELSE {n \in all : Contains(f, Lower(n.title))}

\* C14: a list request returns exactly the stored notes whose title contains
\* the trimmed filter case-insensitively, each with all its fields; an absent,
\* empty or blank filter returns every note; the handler of routers/notes.py
\* gives the same result.
C14_ListFilter ==
    \A t \in Threads :
        Done(t, "list") =>
            LET all == DictValues(held[t])
            IN  /\ response[t].status = HTTP_200_OK
                /\ response[t].body.notes = Selected(req[t].q, all)
                /\ routers_list_notes(req[t].q, all) = Selected(req[t].q, all)

\* A filter that needs trimming and lowering selected one of two stored notes.
C14_Witness ==
    \E t \in Threads :
        /\ Done(t, "list")
        /\ req[t].q # None
        /\ Strip(req[t].q) # req[t].q
        /\ Lower(Strip(req[t].q)) # Strip(req[t].q)
        /\ Cardinality(DictValues(held[t])) = 2
        /\ Cardinality(response[t].body.notes) = 1
        /\ \E n \in response[t].body.notes : Lower(n.title) # n.title

-----------------------------------------------------------------------------
(* C11, C12, C13: identity and timestamps of a stored note *)

\* C11: no step changes the id or the created_at of a note that is live
\* before and after it, and a get of the note reports them as stored.
C11_IdentityNeverChanges ==
    [][ /\ \A r \in DOMAIN items : \A k \in DOMAIN items[r] :
            k \in DOMAIN items'[r] =>
                /\ items'[r][k].id = items[r][k].id
                /\ items'[r][k].created_at = items[r][k].created_at
        /\ \A t \in Threads :
            (pc[t] = "release" /\ pc'[t] = "done" /\ req[t].op = "get"
                /\ ret[t] # NoNote) =>
                /\ response'[t].body.id = items[svc[t]][req[t].id].id
                /\ response'[t].body.created_at =
                       items[svc[t]][req[t].id].created_at ]_vars

\* A note was updated at a later clock reading than it was created at, and
\* its title was replaced.
C11_Witness ==
    \E t \in Threads :
        /\ Done(t, "update") /\ response[t].status = HTTP_200_OK
        /\ response[t].body.updated_at > response[t].body.created_at
        /\ response[t].body.title # held[t][req[t].id].title

\* C12: every stored note has created_at <= updated_at.
C12_CreatedBeforeUpdated ==
    \A r \in DOMAIN items : \A k \in DOMAIN items[r] :
        items[r][k].created_at <= items[r][k].updated_at

\* Two request threads raced to update a note created at an earlier clock
\* reading, and both updates are stored or done.
C12_Witness ==
    \E t, u \in Threads :
        /\ t # u
        /\ Done(t, "update") /\ response[t].status = HTTP_200_OK
        /\ req[u].op = "update" /\ req[u].id = req[t].id /\ svc[u] = svc[t]
        /\ pc[u] \in {"acquire", "update", "update_build", "update_store"}
        /\ req[t].id \in DOMAIN items[svc[t]]
        /\ items[svc[t]][req[t].id].created_at
              < items[svc[t]][req[t].id].updated_at

\* C13 as stated: a successful update leaves updated_at strictly greater than
\* it found it.
C13_UpdatedAtStrictlyGreater ==
    \A t \in Threads :
        (Done(t, "update") /\ response[t].status = HTTP_200_OK) =>
            response[t].body.updated_at > held[t][req[t].id].updated_at

\* C13, amended: a successful update sets updated_at to the clock reading it
\* takes, which is never less than the updated_at it found, and stores that
\* value; the two are equal when the clock has not advanced in between.
C13_UpdatedAtRefreshed ==
    [][ \A t \in Threads :
          /\ (pc[t] = "update_build" /\ pc'[t] = "update_store") =>
                /\ note'[t].updated_at = clock
                /\ note'[t].updated_at >= existing[t].updated_at
          /\ (pc[t] = "update_store" /\ pc'[t] = "release") =>
                /\ items'[svc[t]][req[t].id].updated_at = note[t].updated_at
                /\ items'[svc[t]][req[t].id].updated_at
                      >= items[svc[t]][req[t].id].updated_at ]_vars

\* A note was updated at the clock reading it was created at, and again at a
\* later one.
C13_Witness ==
    \E t \in Threads :
        /\ Done(t, "update") /\ response[t].status = HTTP_200_OK
        /\ held[t][req[t].id].updated_at = held[t][req[t].id].created_at
        /\ response[t].body.updated_at = held[t][req[t].id].updated_at
        /\ clock > response[t].body.updated_at

-----------------------------------------------------------------------------
(* C15: racing updates of one note *)

\* Request threads t and u have both completed an update of the same note of
\* the same store, t supplying only a title and u only a content, and u took
\* the lock after t had stored its record.
RacedTitleThenContent(t, u) ==
    /\ t # u
    /\ Done(t, "update") /\ response[t].status = HTTP_200_OK
    /\ Done(u, "update") /\ response[u].status = HTTP_200_OK
    /\ svc[t] = svc[u] /\ req[t].id = req[u].id
    /\ req[t].title # None /\ req[t].content = None
    /\ req[u].title = None /\ req[u].content # None
    /\ held[u][req[u].id] = response[t].body
    /\ req[t].id \in DOMAIN items[svc[t]]

\* The stored record carries the title only t wrote and the content only u
\* wrote.
Merged(t, u) ==
    LET i == req[t].id
        before == held[t][i]
        final == items[svc[t]][i]
    IN  /\ final.title = Strip(req[t].title)
        /\ final.title # before.title
        /\ final.content = RStrip(req[u].content)
        /\ final.content # before.content

\* C15 as stated: after two racing updates of one note, the stored record
\* never combines a field written by one with a field written by the other.
C15_NoFieldMerge ==
    \A t, u \in Threads : RacedTitleThenContent(t, u) => ~Merged(t, u)

\* C15, amended: racing updates take effect one after the other in the order
\* they take the lock; each stores a whole record built from the record it
\* found under the lock, with the fields it supplies replaced and the fields
\* it does not supply kept as the earlier update left them.
C15_UpdatesApplyInLockOrder ==
    \A t \in Threads :
        (pc[t] = "release" /\ req[t].op = "update"
            /\ ret[t] # NoNote /\ ret[t] # Invalid) =>
            LET i == req[t].id
                found == held[t][i]
                new == items[svc[t]][i]
            IN  /\ new = ret[t]
                /\ new.id = found.id
                /\ new.title =
                      IF req[t].title = None THEN found.title
                      ELSE Strip(req[t].title)
                /\ new.content =
                      IF req[t].content = None THEN found.content
                      ELSE RStrip(req[t].content)

\* An update that supplies only a content is about to leave the lock, having
\* built its record on the title another thread's update had stored.
C15_Witness ==
    \E t, u \in Threads :
        /\ t # u
        /\ Done(t, "update") /\ response[t].status = HTTP_200_OK
        /\ req[t].title # None /\ req[t].content = None
        /\ pc[u] = "release" /\ req[u].op = "update" /\ ret[u] # NoNote
        /\ svc[u] = svc[t] /\ req[u].id = req[t].id
        /\ req[u].title = None /\ req[u].content # None
        /\ held[u][req[u].id] = response[t].body
        /\ ret[u].title = response[t].body.title
        /\ ret[u].content # response[t].body.content

-----------------------------------------------------------------------------
(* C17: the title rule of create and update *)

\* C17 as stated: a create or update that supplies a title (and a content
\* within its limit, or none) is accepted exactly when the title has 1 to 200
\* characters after trimming.
C17_TitleRuleAfterTrimming ==
    \A t \in Threads :
        (/\ pc[t] = "done"
         /\ req[t].op \in {"create", "update"}
         /\ req[t].title # None
         /\ req[t].content # None => StrLen(req[t].content) <= ContentMaxLength) =>
            (response[t].status # HTTP_422_UNPROCESSABLE
                <=> /\ StrLen(Strip(req[t].title)) >= TitleMinLength
                    /\ StrLen(Strip(req[t].title)) <= TitleMaxLength)

-----------------------------------------------------------------------------
(* C16, C18: what the Store hands out, and what it raises *)

\* C16 as stated: what a repository holds changes only in a step of its own
\* create_note, update_note or delete_note; nothing a caller does to a value
\* the repository handed out changes what it returns later.
C16_NoAliasing ==
    [][ \A r \in DOMAIN items :
          items'[r] # items[r] =>
              \E t \in Threads :
                  /\ svc[t] = r
                  /\ pc[t] \in {"create", "update_store", "delete_del"}
                  /\ pc'[t] = "release" ]_vars

\* C18 as stated: no repository call raises; update_note returns a note or
\* reports the id absent, whatever title and content it is given.
C18_StoreNeverRaises ==
    \A t \in Threads : ret[t] # Invalid

-----------------------------------------------------------------------------
(* C19: every operation completes *)

\* Thread t has an operation under way.
InFlight(t) == pc[t] \notin {"idle", "done"}

\* A lock is owned only by a thread inside the critical section of that
\* repository, so a thread that has left it, by return or by an exception,
\* owns no lock.
LockReleasedOnExit ==
    \A r \in DOMAIN lock :
        /\ lock[r].owner # 0 =>
              InCritical(lock[r].owner) /\ svc[lock[r].owner] = r
        /\ \A t \in Threads : ~InCritical(t) => lock[r].owner # t

\* While an operation is under way, some thread can take a step.
NoDeadlock ==
    (\E t \in Threads : InFlight(t)) => \E t \in Threads : ENABLED Handler(t)

\* C19: under fair scheduling every operation that has started completes; no
\* thread waits for the lock forever; every exit from a critical section,
\* the not-found returns and a raised error included, releases the lock; no
\* deadlock is reachable.
C19_EveryOperationCompletes ==
    /\ [](LockReleasedOnExit /\ NoDeadlock)
    /\ \A t \in Threads : InFlight(t) ~> (pc[t] = "done")

\* A thread waits for the lock of a repository while an update_note of
\* another thread leaves the critical section with an error raised.
C19_Witness ==
    \E t, u \in Threads :
        /\ t # u
        /\ pc[t] = "release" /\ ret[t] = Invalid
        /\ pc[u] = "acquire" /\ svc[u] = svc[t]
        /\ lock[svc[t]].owner = t

=============================================================================
